---- MODULE Spec2Model ----
(***************************************************************************)
(* A model of src/pubmed/pubmed-scraper.py: the extraction of labelled     *)
(* abstract sections (parse_pub_entry_data), the csv store (insert_data)   *)
(* and the run that ties them together (main, get_params, html_session).   *)
(*                                                                         *)
(* Python strings are sequences of one-character strings.  Python          *)
(* exceptions are strings naming the exception; "None" is no exception.    *)
(***************************************************************************)
EXTENDS Integers, Sequences, FiniteSets, TLC

\* ------------------------------------------------------------------ bounds
\* The longest element text (p.text) the extraction is checked on.
MaxText == 4
\* The longest text of a <strong> descendant.
MaxLabel == 2
\* The most <strong> descendants of one matched element.
MaxStrong == 2
\* The most research codes of a configuration.
MaxCodes == 2
\* The most runs of the program on the same output file.
MaxRuns == 2

\* ----------------------------------------------------------------- strings
Chars == {"a", "b", " "}

IsSpace(c) == c = " "

RECURSIVE SeqsUpTo(_, _)
\* Every sequence over S of length at most n.
SeqsUpTo(S, n) ==
    IF n = 0 THEN {<<>>}
    ELSE LET shorter == SeqsUpTo(S, n - 1)
         IN  shorter \cup {Append(s, x) : s \in {t \in shorter : Len(t) = n - 1}, x \in S}

RECURSIVE lstrip(_)
lstrip(s) == IF s # <<>> /\ IsSpace(Head(s)) THEN lstrip(Tail(s)) ELSE s

RECURSIVE rstrip(_)
rstrip(s) ==
    IF s # <<>> /\ IsSpace(s[Len(s)]) THEN rstrip(SubSeq(s, 1, Len(s) - 1)) ELSE s

\* str.strip(): leading and trailing whitespace removed.
strip(s) == rstrip(lstrip(s))

StartsWith(s, old) == Len(old) <= Len(s) /\ SubSeq(s, 1, Len(old)) = old

RECURSIVE replace(_, _, _)
\* str.replace(old, "", count): the first `count` non-overlapping occurrences
\* of old, found left to right, are removed; count = -1 removes all of them.
\* An empty old with an empty replacement leaves the string as it is.
replace(s, old, count) ==
    IF old = <<>> \/ count = 0 \/ Len(s) < Len(old) THEN s
    ELSE IF StartsWith(s, old)
         THEN replace(SubSeq(s, Len(old) + 1, Len(s)), old,
                      IF count = -1 THEN -1 ELSE count - 1)
         ELSE <<Head(s)>> \o replace(Tail(s), old, count)

\* Whether old occurs in s.
Contains(s, old) ==
    \E k \in 0..(Len(s) - Len(old)) : SubSeq(s, k + 1, k + Len(old)) = old

\* Element.text of requests_html is already whitespace-trimmed.
Trimmed(s) == strip(s) = s

\* -------------------------------------------------------------- extraction
\* A matched element as parse_pub_entry_data reads it: p.text and the texts
\* of p.find("strong"), in document order.
Element(text, strongs) == [text |-> text, strongs |-> strongs]

\* The dataclass PubEntry.
PubEntry(bold_text, content_text) ==
    [bold_text |-> bold_text, content_text |-> content_text]

RECURSIVE bold_loop(_, _)
\* for bold_text in p.find("strong"): _b = bold_text.text
\* Every iteration assigns _b anew; b is the value before the loop.
bold_loop(b, strongs) ==
    IF strongs = <<>> THEN b ELSE bold_loop(Head(strongs), Tail(strongs))

\* p.text.replace(_b, "").strip(): replace is given no count.
content_of(text, b) == strip(replace(text, b, -1))

\* The body of the loop over the matched elements.
entry_of(p) ==
    LET b == bold_loop(<<>>, p.strongs)
    IN  PubEntry(b, content_of(p.text, b))

\* One PubEntry per matched element, appended in the order of the matches.
parse_pub_entry_data(abstract_content) ==
    [j \in 1..Len(abstract_content) |-> entry_of(abstract_content[j])]

\* The element texts and strong texts the extraction is checked on: trimmed
\* (Element.text trims), each strong's text occurring in its element's text.
Texts == {s \in SeqsUpTo(Chars, MaxText) : Trimmed(s)}
Labels == {s \in SeqsUpTo(Chars, MaxLabel) : Trimmed(s)}
StrongLists(t) ==
    {x \in SeqsUpTo(Labels, MaxStrong) : \A k \in 1..Len(x) : Contains(t, x[k])}
ElementInputs ==
    UNION {{Element(t, ss) : ss \in StrongLists(t)} : t \in Texts}

\* ------------------------------------------------------------ python values
\* Python's != between values of different types is True, whatever they hold.
PyInt(n) == [type |-> "int", val |-> n]
PyStr(x) == [type |-> "str", val |-> x]
PyNotEqual(x, y) == IF x.type # y.type THEN TRUE ELSE x.val # y.val

\* The exit status of the process when exception exc leaves main:
\* none is 0, sys.exit(3) is 3, an uncaught exception is 1.
exit_code(exc) ==
    IF exc = "None" THEN 0 ELSE IF exc = "SystemExit(3)" THEN 3 ELSE 1

\* ------------------------------------------------------------------ config
\* params['url'] of request.toml, a literal prefix.
url_prefix == <<"h", "/">>

Digits == <<"0", "1", "2", "3", "4", "5", "6", "7", "8", "9">>
\* The n research codes of a configuration, pairwise different.
CodesOf(n) == [j \in 1..n |-> <<"1", Digits[j]>>]

\* request.toml: absent, or present with its research codes.
Configs ==
    {[present |-> FALSE, research_code |-> <<>>]}
    \cup {[present |-> TRUE, research_code |-> CodesOf(n)] : n \in 0..MaxCodes}

\* A variant of request_urls: the urls in the reverse of the codes' order.
request_urls_reversed(url, r_code) ==
    [j \in 1..Len(r_code) |-> url \o r_code[Len(r_code) + 1 - j]]

\* request_urls = [_url + code for code in r_code]
request_urls(url, r_code) == [j \in 1..Len(r_code) |-> url \o r_code[j]]

\* get_params: the try block binds params only when request.toml opens; the
\* except block raises SystemExit(3); the finally block then reads params,
\* and an exception it raises replaces the pending one, while its return
\* discards it.
get_params(config) ==
    LET params_bound == config.present
    IN  IF params_bound
        THEN [raises |-> "None",
              url |-> request_urls(url_prefix, config.research_code)]
        ELSE [raises |-> "UnboundLocalError", url |-> <<>>]

\* ------------------------------------------------------------------- store
\* output/pubmed_data.csv: absent, a file of zero bytes ("empty"), a csv
\* table with a header and rows, or bytes that do not parse as csv.
File(kind, rows) == [kind |-> kind, rows |-> rows]

\* make_data_dir_if_not_exists: an absent file is created empty.
make_data_dir_if_not_exists(f) ==
    IF f.kind = "absent" THEN File("empty", <<>>) ELSE f

\* A cell holding a Python object, and the text csv stores for it.
PyObj(x) == [form |-> "object", of |-> x]
str(cell) == [form |-> "text", of |-> cell.of]

\* The dict main builds for one page (lines 148-154).
assemble(url, pub_entry) ==
    [url |-> url,
     text |-> [j \in 1..Len(pub_entry) |->
                 [section |-> j - 1,
                  bold_text |-> pub_entry[j].bold_text,
                  content_text |-> pub_entry[j].content_text]]]

\* pd.DataFrame.from_dict(data): the scalar 'url' is broadcast along the
\* list 'text', one row for each of its items.
from_dict(data) ==
    [j \in 1..Len(data.text) |->
        [url |-> PyObj(data.url), text |-> PyObj(data.text[j])]]

\* pd.read_csv: every cell comes back as text.
read_csv(f) ==
    CASE f.kind = "csv" -> [raises |-> "None", df |-> f.rows]
      [] f.kind = "empty" -> [raises |-> "EmptyDataError", df |-> <<>>]
      [] f.kind = "corrupt" -> [raises |-> "ParserError", df |-> <<>>]
      [] OTHER -> [raises |-> "FileNotFoundError", df |-> <<>>]

\* A variant of concat: the new rows put before the loaded ones.
concat_new_first(pubmed_df, new_data) == new_data \o pubmed_df

\* pd.concat([pubmed_df, new_data], ignore_index=True)
concat(pubmed_df, new_data) == pubmed_df \o new_data

\* DataFrame.to_csv(index=False): the whole file is rewritten, each cell as
\* its text.
to_csv(df) ==
    File("csv", [j \in 1..Len(df) |->
                    [url |-> str(df[j].url), text |-> str(df[j].text)]])

\* A variant of insert_data: without the except clause for EmptyDataError.
insert_data_no_except(f, data) ==
    LET loaded == read_csv(f)
    IN  IF loaded.raises # "None"
        THEN [raises |-> loaded.raises, file |-> f]
        ELSE [raises |-> "None", file |-> to_csv(concat(loaded.df, from_dict(data)))]

\* insert_data: only EmptyDataError is caught.
insert_data(f, data) ==
    LET new_data == from_dict(data)
        loaded == read_csv(f)
        pubmed_df == IF loaded.raises = "EmptyDataError" THEN <<>> ELSE loaded.df
    IN  IF loaded.raises \notin {"None", "EmptyDataError"}
        THEN [raises |-> loaded.raises, file |-> f]
        ELSE [raises |-> "None", file |-> to_csv(concat(pubmed_df, new_data))]

\* ---------------------------------------------------------------- fetching
\* Two matched elements: a labelled section and one without a strong child.
labelled == Element(<<"a", " ", "b">>, << <<"a">> >>)
unlabelled == Element(<<"b">>, <<>>)

\* response.html.find(selector) of a page: nothing, one or two elements.
Pages == {<<>>, <<labelled>>, <<unlabelled, labelled>>}

\* What is parsed of a response: whether response.html.find raises, and the
\* elements it returns otherwise.
Html(find_raises, elems) == [find_raises |-> find_raises, elems |-> elems]
Response(status_code, html) == [status_code |-> status_code, html |-> html]
NoResponse == Response(0, Html(FALSE, <<>>))

\* The page of a not-found response has no abstract, or a single element
\* that happens to match the selector.
NotFoundPages == {<<>>, <<labelled>>}

Responses ==
    {Response(200, h) : h \in {Html(FALSE, pg) : pg \in Pages} \cup {Html(TRUE, <<>>)}}
    \cup {Response(404, h) :
             h \in {Html(FALSE, pg) : pg \in NotFoundPages} \cup {Html(TRUE, <<>>)}}

\* session.get(request_url): it raises, or it returns a response.
GetOutcomes ==
    {[raises |-> e, response |-> NoResponse] : e \in {"ConnectionError", "HTTPError"}}
    \cup {[raises |-> "None", response |-> r] : r \in Responses}

\* The try block of html_session up to its yield: the exception it raises,
\* "None" when it reaches the yield.  status_code is an int and is compared
\* with the str '404'.
html_session_try(outcome) ==
    IF outcome.raises # "None" THEN outcome.raises
    ELSE IF PyNotEqual(PyInt(outcome.response.status_code), PyStr("404"))
         THEN "None"
         ELSE "HTTPError"

\* A variant of the handler: any other exception is swallowed.
html_session_except_swallow(exc) ==
    IF exc = "HTTPError" THEN "SystemExit(3)" ELSE "None"

\* The handler of html_session, for an exception raised in its try block or
\* thrown in at its yield: HTTPError becomes sys.exit(3), any other
\* exception propagates.
html_session_except(exc) == IF exc = "HTTPError" THEN "SystemExit(3)" ELSE exc

\* A variant of the finally block: the session is left open.
finally_no_close(open, session) == open

\* finally: session.close()
finally_close(open, session) == open \ {session}

\* ------------------------------------------------------------------- state
VARIABLES
    pc,                \* where main is
    exit_status,       \* the exit status of the ended process, -1 before
    config,            \* request.toml
    output_file,       \* output/pubmed_data.csv
    file0,             \* output_file when the run started
    urls,              \* p['url']
    idx,               \* the position of the loop in urls, from 1
    sessions,          \* the open HTMLSessions
    opened,            \* the number of HTMLSessions created
    session_response,  \* the response html_session yielded
    data,              \* the dict built for the current page
    fetched,           \* each session.get so far: its url and its outcome
    writes,            \* the number of insert_data calls that returned
    run,               \* the number of this run of the program, from 1
    elem,              \* extraction alone: the matched element
    entry              \* extraction alone: its PubEntry

run_vars == <<pc, exit_status, config, output_file, file0, urls, idx, sessions,
              opened, session_response, data, fetched, writes, run>>
extract_vars == <<elem, entry>>
vars == <<run_vars, extract_vars>>

NoData == [url |-> <<>>, text |-> <<>>]
NoElement == Element(<<>>, <<>>)
NoEntry == [done |-> FALSE, value |-> PubEntry(<<>>, <<>>)]

\* The output file before the first run: absent, of zero bytes, or holding
\* bytes that do not parse as csv.
InitialFiles ==
    {File("absent", <<>>), File("empty", <<>>), File("corrupt", <<>>)}

Init ==
    /\ pc = "start"
    /\ exit_status = -1
    /\ config \in Configs
    /\ output_file \in InitialFiles
    /\ file0 = output_file
    /\ urls = <<>>
    /\ idx = 0
    /\ sessions = {}
    /\ opened = 0
    /\ session_response = NoResponse
    /\ data = NoData
    /\ fetched = <<>>
    /\ writes = 0
    /\ run = 1
    /\ elem = NoElement
    /\ entry = NoEntry

\* The process ends as exception exc leaves main ("None": main returned).
Exit(exc) ==
    /\ pc' = "exited"
    /\ exit_status' = exit_code(exc)

\* main, line 135.
MakeDataDir ==
    /\ pc = "start"
    /\ output_file' = make_data_dir_if_not_exists(output_file)
    /\ pc' = "params"
    /\ UNCHANGED <<exit_status, config, file0, urls, idx, sessions, opened,
                   session_response, data, fetched, writes, run, extract_vars>>

\* main, line 138.
GetParams ==
    /\ pc = "params"
    /\ LET p == get_params(config)
       IN  IF p.raises = "None"
           THEN /\ urls' = p.url
                /\ idx' = 1
                /\ pc' = "loop"
                /\ UNCHANGED exit_status
           ELSE /\ Exit(p.raises)
                /\ UNCHANGED <<urls, idx>>
    /\ UNCHANGED <<config, output_file, file0, sessions, opened,
                   session_response, data, fetched, writes, run, extract_vars>>

\* The with statement is entered for the next url: session = HTMLSession().
OpenSession ==
    /\ pc = "loop"
    /\ idx <= Len(urls)
    /\ opened' = opened + 1
    /\ sessions' = sessions \cup {opened + 1}
    /\ pc' = "get"
    /\ UNCHANGED <<exit_status, config, output_file, file0, urls, idx,
                   session_response, data, fetched, writes, run, extract_vars>>

\* html_session, lines 57-67 up to the yield: the GET, the status check, and
\* on an exception the handler and the finally block.  A generator that ends
\* without yielding makes the with statement raise RuntimeError.
Get ==
    /\ pc = "get"
    /\ \E outcome \in GetOutcomes :
         LET exc == html_session_try(outcome)
             leaving == html_session_except(exc)
         IN  /\ fetched' = Append(fetched, [url |-> urls[idx], outcome |-> outcome])
             /\ IF exc = "None"
                THEN /\ session_response' = outcome.response
                     /\ pc' = "body"
                     /\ UNCHANGED <<exit_status, sessions>>
                ELSE /\ sessions' = finally_close(sessions, opened)
                     /\ Exit(IF leaving = "None" THEN "RuntimeError" ELSE leaving)
                     /\ UNCHANGED session_response
    /\ UNCHANGED <<config, output_file, file0, urls, idx, opened, data, writes,
                   run, extract_vars>>

\* An exception of the with body is thrown into html_session at its yield:
\* the handler, then the finally block; the with statement goes on to the
\* next url only if the generator swallowed the exception.
BodyRaises(exc) ==
    LET leaving == html_session_except(exc)
    IN  /\ sessions' = finally_close(sessions, opened)
        /\ IF leaving = "None"
           THEN /\ idx' = idx + 1
                /\ pc' = "loop"
                /\ UNCHANGED exit_status
           ELSE /\ Exit(leaving)
                /\ UNCHANGED idx

\* main, lines 147-154: the extraction and the dict of the page.
Parse ==
    /\ pc = "body"
    /\ IF session_response.html.find_raises
       THEN /\ BodyRaises("ParseError")
            /\ UNCHANGED data
       ELSE /\ data' = assemble(urls[idx],
                                parse_pub_entry_data(session_response.html.elems))
            /\ pc' = "insert"
            /\ UNCHANGED <<exit_status, idx, sessions>>
    /\ UNCHANGED <<config, output_file, file0, urls, opened, session_response,
                   fetched, writes, run, extract_vars>>

\* main, line 157.
InsertData ==
    /\ pc = "insert"
    /\ LET r == insert_data(output_file, data)
       IN  IF r.raises = "None"
           THEN /\ output_file' = r.file
                /\ writes' = writes + 1
                /\ pc' = "leave"
                /\ UNCHANGED <<exit_status, idx, sessions>>
           ELSE /\ BodyRaises(r.raises)
                /\ UNCHANGED <<output_file, writes>>
    /\ UNCHANGED <<config, file0, urls, opened, session_response, data, fetched,
                   run, extract_vars>>

\* The with body is over: html_session resumes after its yield and runs its
\* finally block; the loop moves to the next url.
LeaveSession ==
    /\ pc = "leave"
    /\ sessions' = finally_close(sessions, opened)
    /\ idx' = idx + 1
    /\ pc' = "loop"
    /\ UNCHANGED <<exit_status, config, output_file, file0, urls, opened,
                   session_response, data, fetched, writes, run, extract_vars>>

\* The loop is over: main returns.
Finish ==
    /\ pc = "loop"
    /\ idx > Len(urls)
    /\ Exit("None")
    /\ UNCHANGED <<config, output_file, file0, urls, idx, sessions, opened,
                   session_response, data, fetched, writes, run, extract_vars>>

\* The program is started again, on the file the ended run left and with
\* the same request.toml.
Rerun ==
    /\ pc = "exited"
    /\ run < MaxRuns
    /\ run' = run + 1
    /\ pc' = "start"
    /\ exit_status' = -1
    /\ file0' = output_file
    /\ urls' = <<>>
    /\ idx' = 0
    /\ sessions' = {}
    /\ opened' = 0
    /\ session_response' = NoResponse
    /\ data' = NoData
    /\ fetched' = <<>>
    /\ writes' = 0
    /\ UNCHANGED <<config, output_file, extract_vars>>

Next ==
    \/ MakeDataDir
    \/ GetParams
    \/ OpenSession
    \/ Get
    \/ Parse
    \/ InsertData
    \/ LeaveSession
    \/ Finish
    \/ Rerun

Spec == Init /\ [][Next]_vars

\* ------------------------------------------------- the extraction on its own
InitExtract ==
    /\ pc = "extract"
    /\ exit_status = -1
    /\ config = [present |-> FALSE, research_code |-> <<>>]
    /\ output_file = File("absent", <<>>)
    /\ file0 = output_file
    /\ urls = <<>>
    /\ idx = 0
    /\ sessions = {}
    /\ opened = 0
    /\ session_response = NoResponse
    /\ data = NoData
    /\ fetched = <<>>
    /\ writes = 0
    /\ run = 1
    /\ elem \in ElementInputs
    /\ entry = NoEntry

\* One pass of the loop of parse_pub_entry_data over a matched element.
Extract ==
    /\ pc = "extract"
    /\ ~entry.done
    /\ entry' = [done |-> TRUE, value |-> entry_of(elem)]
    /\ UNCHANGED <<run_vars, elem>>

NextExtract == Extract

SpecExtract == InitExtract /\ [][NextExtract]_vars

\* ------------------------------------------------------------------ claims
IsPrefix(s, t) == Len(s) <= Len(t) /\ SubSeq(t, 1, Len(s)) = s

\* The rows the run has added to the file it started with.
AddedRows == SubSeq(output_file.rows, Len(file0.rows) + 1, Len(output_file.rows))

\* The position in the configuration of the research code a url is built from.
TargetOf(u) == CHOOSE j \in 1..Len(urls) : urls[j] = u

\* The elements the selector matched on the page of the j-th fetch.
Matched(j) == fetched[j].outcome.response.html.elems

\* Whether the j-th fetch has failed, or the extraction on its response has
\* (the extraction of the current target has not run while pc = "body").
Failed(j) ==
    \/ fetched[j].outcome.raises # "None"
    \/ /\ fetched[j].outcome.response.html.find_raises
       /\ ~(pc = "body" /\ j = idx)

RECURSIVE SectionsOfFirst(_)
\* The (url, section index) of every section of the first m targets' pages,
\* in the order of the targets and, within a page, of the document.
SectionsOfFirst(m) ==
    IF m = 0 THEN <<>>
    ELSE SectionsOfFirst(m - 1)
         \o [k \in 1..Len(Matched(m)) |-> <<urls[m], k - 1>>]

\* The (url, section index) of each row.
KeysOf(rows) == [r \in 1..Len(rows) |-> <<rows[r].url.of, rows[r].text.of.section>>]

\* C1 (as claimed): every page whose insert_data call returned has grown the
\* dataset by exactly one row, whatever the number of elements the selector
\* matched on it.
C1_OneRowPerPage == Len(output_file.rows) = Len(file0.rows) + writes

\* C2 (as claimed): a response with status 404 is never yielded to the body
\* of the with statement: the run ends with a non-zero status at that fetch
\* and no row of that url is written.
C2_NotFoundIsFatal ==
    \A j \in 1..Len(fetched) :
        (fetched[j].outcome.raises = "None"
           /\ fetched[j].outcome.response.status_code = 404)
        => /\ pc = "exited"
           /\ exit_status # 0
           /\ j = Len(fetched)
           /\ \A r \in 1..Len(AddedRows) : AddedRows[r].url.of # fetched[j].url

\* C3 (as claimed): with request.toml absent the process ends with exit
\* status 3, having fetched nothing and written no row.
C3_ConfigAbsentExits3 ==
    (pc = "exited" /\ ~config.present)
    => /\ exit_status = 3
       /\ fetched = <<>>
       /\ output_file.rows = file0.rows

\* C4: the session of a with statement is open exactly while main is inside
\* that statement; none is open between two targets or once the process has
\* ended, whichever way the statement was left, and never two at once.
C4_SessionsClosed ==
    /\ Cardinality(sessions) <= 1
    /\ pc \in {"get", "body", "insert", "leave"} => sessions = {opened}
    /\ pc \in {"start", "params", "loop", "exited"} => sessions = {}

\* A run that ended on an exception of the with body (the extraction raised
\* on the second target) after a first target went through.
C4_Witness ==
    /\ pc = "exited"
    /\ exit_status = 1
    /\ opened = 2
    /\ writes = 1
    /\ fetched[2].outcome.raises = "None"
    /\ fetched[2].outcome.response.html.find_raises

\* C5: the fetches are of url + code, code by code in the order of the
\* configuration; a fetch starts only once every earlier target has been
\* written; a run that ends without a fatal error has fetched every code once;
\* and the rows the run adds are in the order of their codes.
C5_ConfigOrder ==
    /\ Len(fetched) <= Len(config.research_code)
    /\ \A j \in 1..Len(fetched) :
          fetched[j].url = url_prefix \o config.research_code[j]
    /\ pc = "get" => (Len(fetched) = idx - 1 /\ writes = idx - 1)
    /\ (pc = "exited" /\ exit_status = 0)
          => (Len(fetched) = Len(config.research_code) /\ writes = Len(fetched))
    /\ \A q \in 1..Len(AddedRows) : \A r \in 1..(q - 1) :
          TargetOf(AddedRows[r].url.of) <= TargetOf(AddedRows[q].url.of)

\* A run over two codes that ended without a fatal error, each code having
\* added rows.
C5_Witness ==
    /\ pc = "exited"
    /\ exit_status = 0
    /\ Len(fetched) = 2
    /\ \E q, r \in 1..Len(AddedRows) :
          AddedRows[q].url.of = urls[1] /\ AddedRows[r].url.of = urls[2]

\* C6: whatever main does, the rows the file held before the step are an
\* unchanged prefix of the rows it holds after it.
C6_AppendOnly == [][IsPrefix(output_file.rows, output_file'.rows)]_vars

\* A file that held rows of an earlier run and has been given new rows.
C6_Witness ==
    /\ Len(file0.rows) >= 1
    /\ writes >= 1
    /\ Len(output_file.rows) > Len(file0.rows)

\* The rows of data as csv stores them.
StoredRowsOf(d) ==
    [j \in 1..Len(d.text) |->
        [url |-> [form |-> "text", of |-> d.url],
         text |-> [form |-> "text", of |-> d.text[j]]]]

\* C7 (as claimed): on a file that is empty or does not parse as csv,
\* insert_data returns and leaves the file holding the new record alone.
C7_EmptyOrCorruptRecovered ==
    [][(pc = "insert" /\ output_file.kind \in {"empty", "corrupt"})
        => (pc' = "leave" /\ output_file' = File("csv", StoredRowsOf(data)))]_vars

\* C7 (amended): on an empty file insert_data returns and leaves the file
\* holding the rows of the new record alone; on a file that does not parse as
\* csv the load error propagates, the file is left as it was and the process
\* ends with status 1.
C7_OnlyEmptyRecovered ==
    [][/\ (pc = "insert" /\ output_file.kind = "empty")
            => (pc' = "leave" /\ output_file' = File("csv", StoredRowsOf(data)))
       /\ (pc = "insert" /\ output_file.kind = "corrupt")
            => (pc' = "exited" /\ exit_status' = 1 /\ output_file' = output_file)]_vars

\* The first insert_data of a run on the file make_data_dir_if_not_exists
\* created empty has returned, and the file holds a row.
C7_Witness ==
    /\ file0.kind = "absent"
    /\ writes = 1
    /\ output_file.kind = "csv"
    /\ Len(output_file.rows) >= 1

\* C8 (as claimed): the label of a segment is the text of the first strong
\* descendant of its element, and empty when there is none.
C8_FirstStrong ==
    entry.done
    => entry.value.bold_text
         = (IF elem.strongs = <<>> THEN <<>> ELSE elem.strongs[1])

\* C9 (as claimed): the body of a segment is the element's text with the
\* first occurrence of the label removed, later ones kept, then trimmed.
C9_FirstOccurrenceOnly ==
    entry.done
    => entry.value.content_text
         = strip(replace(elem.text, entry.value.bold_text, 1))

\* C10: only the last fetch of a run can have failed, a failed target has no
\* row, and at every moment the rows the run has added are exactly the
\* sections of the targets written so far, a prefix of the configured ones.
C10_HaltAtFirstFailure ==
    /\ \A j \in 1..Len(fetched) :
          Failed(j) => /\ j = Len(fetched)
                       /\ pc = "exited"
                       /\ exit_status # 0
                       /\ writes = j - 1
    /\ writes <= Len(fetched)
    /\ KeysOf(AddedRows) = SectionsOfFirst(writes)

\* The second of two targets failed at its GET after the first one had added
\* rows, which are still in the file.
C10_Witness ==
    /\ pc = "exited"
    /\ exit_status = 1
    /\ Len(fetched) = 2
    /\ fetched[2].outcome.raises = "ConnectionError"
    /\ writes = 1
    /\ Len(AddedRows) >= 1
====
